---------------------------- MODULE Spec2Model ----------------------------
(***************************************************************************)
(* A model of spawn_zone_tool.py: the brush geometry resolver              *)
(* (_plane_from_face, _intersect_3_planes, get_vertices_for_brush,         *)
(* get_aabb_for_brush) and the zone assembly pass (process_map).           *)
(*                                                                         *)
(* Numbers.  The source computes in floats; the model computes the same    *)
(* expressions exactly.  Lengths are counted in grid units of 1/40 Quake   *)
(* unit, so that the tolerance 0.05 is the integer 2 and brushes thinner   *)
(* than the tolerance exist.  A unit normal n = v/|v| is kept as the       *)
(* integer direction v and the squared length l2 = v.v; a plane (n, d) is  *)
(* [nv, l2, dn] with n = nv/sqrt(l2) and d = dn/sqrt(l2).  A point is      *)
(* [x, w], the integer vector x over the positive integer w, in lowest     *)
(* terms.  Every comparison of the source is then a comparison of          *)
(* integers.                                                               *)
(***************************************************************************)
EXTENDS Integers, Sequences, FiniteSets, TLC

\* get_vertices_for_brush(brush, epsilon=0.05), in grid units
epsilon == 2
\* one Quake unit: 20 * 0.05
QuakeUnit == 20 * epsilon
\* _intersect_3_planes(p1, p2, p3, eps=1e-9): 1/eps
InvEps == 1000000000

\* ------------------------------------------------------------------ bounds
\* longest brush (number of faces) drawn from GeneralFaces
MaxFaces == 5
\* entities in map_data.entities
MaxEntities == 2

\* ------------------------------------------------------- integer helpers
Abs(a) == IF a < 0 THEN -a ELSE a

RECURSIVE Gcd(_, _)
Gcd(a, b) == IF b = 0 THEN a ELSE Gcd(b, a % b)

Zero3 == <<0, 0, 0>>

\* a rational num/den in lowest terms, den > 0
Rat(num, den) ==
    LET g == Gcd(Abs(num), Abs(den))
        s == IF den < 0 THEN -1 ELSE 1
    IN  <<s * (num \div g), s * (den \div g)>>

RatLe(a, b) == a[1] * b[2] <= b[1] * a[2]

\* the point x/w in lowest terms, w > 0
Point(x, w) ==
    LET g == Gcd(Gcd(Abs(x[1]), Abs(x[2])), Gcd(Abs(x[3]), Abs(w)))
        s == IF w < 0 THEN -1 ELSE 1
    IN  [x |-> <<s * (x[1] \div g), s * (x[2] \div g), s * (x[3] \div g)>>,
         w |-> s * (w \div g)]

\* _intersect_3_planes returning None
None == [x |-> Zero3, w |-> 0]

\* ----------------------------------------------------------- vector math
_vec_sub(a, b) == <<a[1] - b[1], a[2] - b[2], a[3] - b[3]>>

_vec_add(a, b) == <<a[1] + b[1], a[2] + b[2], a[3] + b[3]>>

_vec_dot(a, b) == a[1] * b[1] + a[2] * b[2] + a[3] * b[3]

_vec_cross(a, b) ==
    <<a[2] * b[3] - a[3] * b[2],
      a[3] * b[1] - a[1] * b[3],
      a[1] * b[2] - a[2] * b[1]>>

_vec_scale(v, s) == <<v[1] * s, v[2] * s, v[3] * s>>

\* _vec_norm without the l == 0.0 guard: v/l with l = 0 is a division by
\* zero, kept as l2 = 0
_vec_norm_unguarded(v) == [v |-> v, l2 |-> _vec_dot(v, v)]

\* v / |v| as [v, l2]; the zero vector stays (0, 0, 0)
_vec_norm(v) ==
    IF _vec_dot(v, v) = 0
    THEN [v |-> Zero3, l2 |-> 1]
    ELSE [v |-> v, l2 |-> _vec_dot(v, v)]

\* _vec_len(n) == 0.0 for a normalised n
_vec_len_is_zero(n) == _vec_dot(n.v, n.v) = 0

\* _plane_from_face with the cross product taken the other way round:
\* n = norm((p2-p1) x (p3-p1))
_plane_from_face_flipped(face) ==
    LET p1 == face[1]
        p2 == face[2]
        p3 == face[3]
        n  == _vec_norm(_vec_cross(_vec_sub(p2, p1), _vec_sub(p3, p1)))
    IN  [nv |-> n.v, l2 |-> n.l2, dn |-> _vec_dot(n.v, p1)]

\* face = <<p1, p2, p3>>; the plane n.x = d with n = norm((p3-p1) x (p2-p1))
_plane_from_face(face) ==
    LET p1 == face[1]
        p2 == face[2]
        p3 == face[3]
        n  == _vec_norm(_vec_cross(_vec_sub(p3, p1), _vec_sub(p2, p1)))
    IN  [nv |-> n.v, l2 |-> n.l2, dn |-> _vec_dot(n.v, p1)]

\* abs(denom) < eps, denom = det / sqrt(l2 l2 l2):
\* det^2 * 10^18 < P  <=>  det^2 <= (P - 1) div 10^18
DenomBelowEps(det, p1, p2, p3) ==
    \/ det = 0
    \/ det * det <= (((p1.l2 * p2.l2 * p3.l2) - 1) \div InvEps) \div InvEps

_intersect_3_planes(p1, p2, p3) ==
    LET n2xn3 == _vec_cross(p2.nv, p3.nv)
        denom == _vec_dot(p1.nv, n2xn3)
        term1 == _vec_scale(n2xn3, p1.dn)
        term2 == _vec_scale(_vec_cross(p3.nv, p1.nv), p2.dn)
        term3 == _vec_scale(_vec_cross(p1.nv, p2.nv), p3.dn)
    IN  IF DenomBelowEps(denom, p1, p2, p3)
        THEN None
        ELSE Point(_vec_add(_vec_add(term1, term2), term3), denom)

\* dot(n, p) > d + epsilon
\* <=> (nv.x - dn w)/w > epsilon sqrt(l2), w > 0
Outside(pl, p) ==
    LET a == _vec_dot(pl.nv, p.x) - pl.dn * p.w
    IN  a > 0 /\ a * a > epsilon * epsilon * p.w * p.w * pl.l2

\* abs(p[c] - q[c]) <= epsilon on each of the three axes
Near(p, q) ==
    \A c \in 1..3 : Abs(p.x[c] * q.w - q.x[c] * p.w) <= epsilon * p.w * q.w


\* ------------------------------------------------- get_vertices_for_brush
\* one iteration of the face loop: a degenerate face is skipped
FaceStep(planes, face) ==
    LET pl == _plane_from_face(face)
    IN  IF _vec_len_is_zero([v |-> pl.nv, l2 |-> pl.l2])
        THEN planes
        ELSE Append(planes, pl)

\* the division v[0]/l of _vec_norm raises ZeroDivisionError when l == 0
Raises(face) == _plane_from_face(face).l2 = 0

RECURSIVE ExtractPlanes(_, _, _)
ExtractPlanes(faces, f, planes) ==
    IF f > Len(faces)
    THEN planes
    ELSE ExtractPlanes(faces, f + 1, FaceStep(planes, faces[f]))

\* the loop headers: for i in range(n), for j in range(i+1, n),
\* for k in range(j+1, n), as the triple visited first and the one after
\* <<i, j, k>>; <<0, 0, 0>> when the loops are over (indices are 1-based)
FirstTriple(n) == IF n >= 3 THEN <<1, 2, 3>> ELSE Zero3

NextTriple(t, n) ==
    IF t[3] < n THEN <<t[1], t[2], t[3] + 1>>
    ELSE IF t[2] + 1 < n THEN <<t[1], t[2] + 1, t[2] + 2>>
    ELSE IF t[1] + 2 < n THEN <<t[1] + 1, t[1] + 2, t[1] + 3>>
    ELSE Zero3

Candidate(planes, t) ==
    _intersect_3_planes(planes[t[1]], planes[t[2]], planes[t[3]])

\* the inside test against the three generating planes only
InsideOwnPlanes(planes, t, p) ==
    \A m \in {t[1], t[2], t[3]} : ~Outside(planes[m], p)

\* the inside test: n.p <= d + epsilon for all planes
Inside(planes, t, p) ==
    \A m \in 1..Len(planes) : ~Outside(planes[m], p)

\* the dedupe test with < in place of <=
DupStrict(verts, p) ==
    \E m \in 1..Len(verts) :
        \A c \in 1..3 :
            Abs(p.x[c] * verts[m].w - verts[m].x[c] * p.w)
                < epsilon * p.w * verts[m].w

\* the dedupe test: some accepted q is near p
Dup(verts, p) == \E m \in 1..Len(verts) : Near(p, verts[m])

\* the body of the innermost loop
VisitTriple(verts, planes, t) ==
    LET p == Candidate(planes, t)
    IN  IF p = None THEN verts
        ELSE IF ~Inside(planes, t, p) THEN verts
        ELSE IF Dup(verts, p) THEN verts
        ELSE Append(verts, p)

RECURSIVE Enumerate(_, _, _)
Enumerate(planes, verts, t) ==
    IF t = Zero3
    THEN verts
    ELSE Enumerate(planes, VisitTriple(verts, planes, t),
                   NextTriple(t, Len(planes)))

get_vertices_for_brush(brush) ==
    LET planes == ExtractPlanes(brush, 1, <<>>)
    IN  Enumerate(planes, <<>>, FirstTriple(Len(planes)))

\* ----------------------------------------------------- get_aabb_for_brush
\* (None, None)
NoBox == [mins |-> <<>>, maxs |-> <<>>]

Coord(v, c) == Rat(v.x[c], v.w)

MinCoord(verts, c) ==
    LET S == {Coord(verts[m], c) : m \in 1..Len(verts)}
    IN  CHOOSE a \in S : \A b \in S : RatLe(a, b)

MaxCoord(verts, c) ==
    LET S == {Coord(verts[m], c) : m \in 1..Len(verts)}
    IN  CHOOSE a \in S : \A b \in S : RatLe(b, a)

\* get_aabb_for_brush with the empty test lost: a zero box for no vertices
ReduceZeroBox(verts) ==
    IF verts = <<>>
    THEN [mins |-> <<Rat(0, 1), Rat(0, 1), Rat(0, 1)>>,
          maxs |-> <<Rat(0, 1), Rat(0, 1), Rat(0, 1)>>]
    ELSE [mins |-> <<MinCoord(verts, 1), MinCoord(verts, 2), MinCoord(verts, 3)>>,
          maxs |-> <<MaxCoord(verts, 1), MaxCoord(verts, 2), MaxCoord(verts, 3)>>]

\* the reduction of the vertex list to (mins, maxs)
Reduce(verts) ==
    IF verts = <<>>
    THEN NoBox
    ELSE [mins |-> <<MinCoord(verts, 1), MinCoord(verts, 2), MinCoord(verts, 3)>>,
          maxs |-> <<MaxCoord(verts, 1), MaxCoord(verts, 2), MaxCoord(verts, 3)>>]

get_aabb_for_brush(brush) == Reduce(get_vertices_for_brush(brush))

\* ------------------------------------------------------------ the inputs
\* faces of the axis-aligned half-spaces x >= c, x <= c, ...; the winding
\* makes (p3 - p1) x (p2 - p1) point out of the solid
XLo(c) == <<(<<c, 0, 0>>), (<<c, 1, 0>>), (<<c, 0, 1>>)>>
XHi(c) == <<(<<c, 0, 0>>), (<<c, 0, 1>>), (<<c, 1, 0>>)>>
YLo(c) == <<(<<0, c, 0>>), (<<0, c, 1>>), (<<1, c, 0>>)>>
YHi(c) == <<(<<0, c, 0>>), (<<1, c, 0>>), (<<0, c, 1>>)>>
ZLo(c) == <<(<<0, 0, c>>), (<<1, 0, c>>), (<<0, 1, c>>)>>
ZHi(c) == <<(<<0, 0, c>>), (<<0, 1, c>>), (<<1, 0, c>>)>>

\* x + y + z <= 3
Slanted == <<(<<3, 0, 0>>), (<<2, 0, 1>>), (<<2, 1, 0>>)>>
\* three collinear points, three coincident points
Collinear == <<(<<0, 0, 0>>), (<<1, 1, 1>>), (<<2, 2, 2>>)>>
Coincident == <<(<<5, 5, 5>>), (<<5, 5, 5>>), (<<5, 5, 5>>)>>

\* the six faces of the cube from (0,0,0) to (s,s,s)
CubeFaces(s) == {XLo(0), YLo(0), ZLo(0), XHi(s), YHi(s), ZHi(s)}

BoxSide == 10 * QuakeUnit

\* cubes thinner than epsilon, exactly epsilon, just over it, and the
\* 10 x 10 x 10 box
CubeSides == {1, epsilon, epsilon + 1, BoxSide}

GeneralFaces ==
    {XLo(0), YLo(0), ZLo(0), XHi(1), YHi(epsilon + 1), ZHi(BoxSide),
     Slanted, Collinear, Coincident}

Injective(s) == \A a, b \in DOMAIN s : a # b => s[a] # s[b]

Arrangements(S, n) == {s \in [1..n -> S] : Injective(s)}

Brushes ==
    UNION {Arrangements(CubeFaces(s), 6) : s \in CubeSides}
    \cup UNION {Arrangements(GeneralFaces, n) : n \in 0..MaxFaces}

\* ------------------------------------------------------------- the state
VARIABLES
    brush,      \* the brush given to get_aabb_for_brush: its faces in order
    bpc,        \* "faces", "triples", "reduce", "done", "raised"
    f,          \* the face the face loop is at
    planes,     \* planes
    t,          \* <<i, j, k>> of the triple loops
    verts,      \* verts
    last,       \* the candidate p of the last triple visited and its fate
    box         \* the (mins, maxs) returned

bvars == <<brush, bpc, f, planes, t, verts, last, box>>

NoLast == [fate |-> "none", p |-> None, q |-> None]


\* ------------------------------------------------------------ process_map
\* strings are sequences of characters
IsSpace(c) == c = " "

RECURSIVE LStrip(_)
LStrip(s) == IF s # <<>> /\ IsSpace(Head(s)) THEN LStrip(Tail(s)) ELSE s

RECURSIVE RStrip(_)
RStrip(s) ==
    IF s # <<>> /\ IsSpace(s[Len(s)]) THEN RStrip(SubSeq(s, 1, Len(s) - 1)) ELSE s

\* str.strip()
Strip(s) == RStrip(LStrip(s))

\* str.split(","): always at least one piece
RECURSIVE Split(_)
Split(s) ==
    IF \A m \in 1..Len(s) : s[m] # ","
    THEN <<s>>
    ELSE LET c == CHOOSE m \in 1..Len(s) :
                      s[m] = "," /\ \A m2 \in 1..(m - 1) : s[m2] # ","
         IN  <<SubSeq(s, 1, c - 1)>> \o Split(SubSeq(s, c + 1, Len(s)))

\* [z.strip() for z in s.split(",") if z.strip()]
RECURSIVE StripAll(_)
StripAll(pieces) ==
    IF pieces = <<>> THEN <<>>
    ELSE IF Strip(Head(pieces)) = <<>> THEN StripAll(Tail(pieces))
    ELSE <<Strip(Head(pieces))>> \o StripAll(Tail(pieces))

\* get_id_for_zone returning the counter in place of the stored id
get_id_for_zone_counter(ids, next, name) ==
    IF name \notin DOMAIN ids
    THEN [ids |-> ids @@ (name :> next), next |-> next + 1, id |-> next + 1]
    ELSE [ids |-> ids, next |-> next, id |-> next]

\* get_id_for_zone without the test for a known name
get_id_for_zone_always_new(ids, next, name) ==
    [ids |-> [n \in DOMAIN ids \cup {name} |-> IF n = name THEN next ELSE ids[n]],
     next |-> next + 1, id |-> next]

\* get_id_for_zone without next_zone_id += 1
get_id_for_zone_no_increment(ids, next, name) ==
    IF name \notin DOMAIN ids
    THEN [ids |-> ids @@ (name :> next), next |-> next, id |-> next]
    ELSE [ids |-> ids, next |-> next, id |-> ids[name]]

\* get_id_for_zone(name) on zone_name_to_id = ids and next_zone_id = next:
\* both after the call, and the id returned
get_id_for_zone(ids, next, name) ==
    IF name \notin DOMAIN ids
    THEN [ids |-> ids @@ (name :> next), next |-> next + 1, id |-> next]
    ELSE [ids |-> ids, next |-> next, id |-> ids[name]]

\* the brush loop appending a ZoneBrush whatever get_aabb_for_brush returned
BrushStepNoSkip(brushes, aabb) == Append(brushes, aabb)

\* one iteration of the brush loop: (None, None) is skipped
BrushStep(brushes, aabb) ==
    IF aabb.mins = <<>> \/ aabb.maxs = <<>>
    THEN brushes
    ELSE Append(brushes, aabb)

\* ent.properties.get("zone_name") of an entity without the key: None
NoName == <<"None">>

\* zone_name of the spawn_zone entities: "A", "B", " B" and absent
OwnNames == {<<"A">>, <<"B">>, <<" ", "B">>, NoName}

\* adjacent_zones of the spawn_zone entities: absent (""), "B", " A ,B"
\* and "B,,B "
AdjStrings ==
    {<<>>,
     <<"B">>,
     <<" ", "A", " ", ",", "B">>,
     <<"B", ",", ",", "B", " ">>}

\* door_way_targets of the spawn_zone entities: "d, "
DoorStrings == {<<"d", ",", " ">>}

\* the 10 x 10 x 10 box
BoxBrush == <<XLo(0), XHi(BoxSide), YLo(0), YHi(BoxSide), ZLo(0), ZHi(BoxSide)>>
\* three planes meeting in a point
CornerBrush == <<XLo(0), YLo(0), ZLo(0)>>
\* two planes
WedgeBrush == <<XLo(0), YHi(1)>>
\* degenerate faces only
FlatBrush == <<Collinear, Coincident>>

\* ent.brushes of the spawn_zone entities
BrushLists ==
    {<<>>,
     <<WedgeBrush, CornerBrush>>,
     <<BoxBrush, FlatBrush, CornerBrush>>}

VARIABLES
    epc,                \* "loop", "adjacent", "brushes", "returned"
    nent,               \* entities of map_data.entities visited
    ent,                \* the spawn_zone entity at hand
    items,              \* adjacents.split(",")
    zi,                 \* the piece the adjacency comprehension is at
    adjacent_zones,     \* adjacent_zones
    door_waypoint_targets,
    brushes,            \* brushes
    bi,                 \* the brush of ent.brushes the brush loop is at
    zone_name_to_id,
    next_zone_id,
    zones,
    seen                \* per spawn_zone entity begun: its zone_name, the
                        \* names its adjacency list gave to get_id_for_zone
                        \* so far, its brushes, and the vertex list of each
                        \* brush visited so far (history)

pvars == <<epc, nent, ent, items, zi, adjacent_zones, door_waypoint_targets,
           brushes, bi, zone_name_to_id, next_zone_id, zones, seen>>

vars == <<bvars, pvars>>

NoEnt == [zone_name |-> <<>>, zone_target |-> <<>>, zone_fog |-> <<>>,
          brushes |-> <<>>]

\* the locals of the loop body hold nothing that is read again
NoLocals ==
    /\ ent' = NoEnt
    /\ items' = <<>>
    /\ zi' = 0
    /\ adjacent_zones' = <<>>
    /\ door_waypoint_targets' = <<>>
    /\ brushes' = <<>>
    /\ bi' = 0

\* the brush resolver is not running
BrushIdle ==
    /\ brush = <<>>
    /\ bpc = "idle"
    /\ f = 0
    /\ planes = <<>>
    /\ t = Zero3
    /\ verts = <<>>
    /\ last = NoLast
    /\ box = NoBox

\* process_map is not running
ProcessIdle ==
    /\ epc = "idle"
    /\ nent = 0
    /\ ent = NoEnt
    /\ items = <<>>
    /\ zi = 0
    /\ adjacent_zones = <<>>
    /\ door_waypoint_targets = <<>>
    /\ brushes = <<>>
    /\ bi = 0
    /\ zone_name_to_id = <<>>
    /\ next_zone_id = 1
    /\ zones = <<>>
    /\ seen = <<>>

Init ==
    /\ BrushIdle
    /\ epc = "loop"
    /\ nent = 0
    /\ ent = NoEnt
    /\ items = <<>>
    /\ zi = 0
    /\ adjacent_zones = <<>>
    /\ door_waypoint_targets = <<>>
    /\ brushes = <<>>
    /\ bi = 0
    /\ zone_name_to_id = <<>>
    /\ next_zone_id = 1
    /\ zones = <<>>
    /\ seen = <<>>

\* an entity whose classname is not spawn_zone: continue
SkipEntity ==
    /\ epc = "loop"
    /\ nent < MaxEntities
    /\ nent' = nent + 1
    /\ UNCHANGED <<epc, ent, items, zi, adjacent_zones, door_waypoint_targets,
                   brushes, bi, zone_name_to_id, next_zone_id, zones, seen>>

\* a spawn_zone entity: its properties are read
BeginEntity ==
    /\ epc = "loop"
    /\ nent < MaxEntities
    /\ \E name \in OwnNames, adjacents \in AdjStrings, doors \in DoorStrings,
          bl \in BrushLists :
          /\ ent' = [zone_name |-> name, zone_target |-> <<"t">>,
                     zone_fog |-> <<>>, brushes |-> bl]
          /\ items' = Split(adjacents)
          /\ door_waypoint_targets' = StripAll(Split(doors))
          /\ seen' = Append(seen, [name |-> name, names |-> <<>>,
                                   brushes |-> bl, yielded |-> <<>>])
    /\ nent' = nent + 1
    /\ zi' = 1
    /\ adjacent_zones' = <<>>
    /\ brushes' = <<>>
    /\ bi' = 1
    /\ epc' = "adjacent"
    /\ UNCHANGED <<zone_name_to_id, next_zone_id, zones>>

\* a piece of the adjacency list that strips to nothing
AdjacentBlank ==
    /\ epc = "adjacent"
    /\ zi <= Len(items)
    /\ Strip(items[zi]) = <<>>
    /\ zi' = zi + 1
    /\ UNCHANGED <<epc, nent, ent, items, adjacent_zones, door_waypoint_targets,
                   brushes, bi, zone_name_to_id, next_zone_id, zones, seen>>

\* get_id_for_zone(z.strip()) for a piece of the adjacency list
AdjacentResolve ==
    /\ epc = "adjacent"
    /\ zi <= Len(items)
    /\ Strip(items[zi]) # <<>>
    /\ LET r == get_id_for_zone(zone_name_to_id, next_zone_id, Strip(items[zi]))
       IN  /\ zone_name_to_id' = r.ids
           /\ next_zone_id' = r.next
           /\ adjacent_zones' = Append(adjacent_zones, r.id)
    /\ seen' = [seen EXCEPT ![Len(seen)].names = Append(@, Strip(items[zi]))]
    /\ zi' = zi + 1
    /\ UNCHANGED <<epc, nent, ent, items, door_waypoint_targets, brushes, bi,
                   zones>>

\* the adjacency list is done; the brush loop starts
AdjacentDone ==
    /\ epc = "adjacent"
    /\ zi > Len(items)
    /\ epc' = "brushes"
    /\ UNCHANGED <<nent, ent, items, zi, adjacent_zones, door_waypoint_targets,
                   brushes, bi, zone_name_to_id, next_zone_id, zones, seen>>

\* a brush of the entity: get_aabb_for_brush, which reduces the vertex list
\* of the brush, then skipped or appended
VisitBrush ==
    /\ epc = "brushes"
    /\ bi <= Len(ent.brushes)
    /\ LET vs == get_vertices_for_brush(ent.brushes[bi])
       IN  /\ brushes' = BrushStep(brushes, Reduce(vs))
           /\ seen' = [seen EXCEPT ![Len(seen)].yielded = Append(@, vs)]
    /\ bi' = bi + 1
    /\ UNCHANGED <<epc, nent, ent, items, zi, adjacent_zones,
                   door_waypoint_targets, zone_name_to_id, next_zone_id, zones>>

\* zone_id = get_id_for_zone(zone_name); zones.append(Zone(...))
EmitZone ==
    /\ epc = "brushes"
    /\ bi > Len(ent.brushes)
    /\ LET r == get_id_for_zone(zone_name_to_id, next_zone_id, ent.zone_name)
       IN  /\ zone_name_to_id' = r.ids
           /\ next_zone_id' = r.next
           /\ zones' = Append(zones,
                  [name |-> ent.zone_name,
                   zone_id |-> r.id,
                   target |-> ent.zone_target,
                   fog |-> ent.zone_fog,
                   adjacent_zones |-> adjacent_zones,
                   door_waypoint_targets |-> door_waypoint_targets,
                   brushes |-> brushes])
    /\ epc' = "loop"
    /\ NoLocals
    /\ UNCHANGED <<nent, seen>>

\* the entity list is exhausted: return zones
ReturnZones ==
    /\ epc = "loop"
    /\ epc' = "returned"
    /\ UNCHANGED <<nent, ent, items, zi, adjacent_zones, door_waypoint_targets,
                   brushes, bi, zone_name_to_id, next_zone_id, zones, seen>>

Next ==
    \/ SkipEntity /\ UNCHANGED bvars
    \/ BeginEntity /\ UNCHANGED bvars
    \/ AdjacentBlank /\ UNCHANGED bvars
    \/ AdjacentResolve /\ UNCHANGED bvars
    \/ AdjacentDone /\ UNCHANGED bvars
    \/ VisitBrush /\ UNCHANGED bvars
    \/ EmitZone /\ UNCHANGED bvars
    \/ ReturnZones /\ UNCHANGED bvars

Spec == Init /\ [][Next]_vars

\* ------------------------------------------- the resolver, step by step
InitBrush ==
    /\ ProcessIdle
    /\ brush \in Brushes
    /\ bpc = "faces"
    /\ f = 1
    /\ planes = <<>>
    /\ t = Zero3
    /\ verts = <<>>
    /\ last = NoLast
    /\ box = NoBox

\* for face in brush.faces: one face
ExtractFace ==
    /\ bpc = "faces"
    /\ f <= Len(brush)
    /\ IF Raises(brush[f])
       THEN bpc' = "raised" /\ UNCHANGED <<f, planes>>
       ELSE bpc' = bpc /\ f' = f + 1 /\ planes' = FaceStep(planes, brush[f])
    /\ UNCHANGED <<brush, t, verts, last, box>>

\* verts = []; the triple loops start
StartTriples ==
    /\ bpc = "faces"
    /\ f > Len(brush)
    /\ t' = FirstTriple(Len(planes))
    /\ bpc' = IF t' = Zero3 THEN "reduce" ELSE "triples"
    /\ UNCHANGED <<brush, f, planes, verts, last, box>>

Advance ==
    /\ t' = NextTriple(t, Len(planes))
    /\ bpc' = IF t' = Zero3 THEN "reduce" ELSE "triples"
    /\ verts' = VisitTriple(verts, planes, t)
    /\ UNCHANGED <<brush, f, planes, box>>

\* p is None: continue
TripleNoPoint ==
    /\ bpc = "triples"
    /\ Candidate(planes, t) = None
    /\ last' = [fate |-> "nopoint", p |-> None, q |-> None]
    /\ Advance

\* not inside: continue
TripleOutside ==
    /\ bpc = "triples"
    /\ LET p == Candidate(planes, t)
       IN  /\ p # None
           /\ ~Inside(planes, t, p)
           /\ last' = [fate |-> "outside", p |-> p, q |-> None]
    /\ Advance

\* dup: p is dropped
TripleDuplicate ==
    /\ bpc = "triples"
    /\ LET p == Candidate(planes, t)
       IN  /\ p # None
           /\ Inside(planes, t, p)
           /\ Dup(verts, p)
           /\ last' = [fate |-> "dup", p |-> p,
                       q |-> verts[CHOOSE m \in 1..Len(verts) :
                                     /\ Near(p, verts[m])
                                     /\ \A m2 \in 1..(m - 1) : ~Near(p, verts[m2])]]
    /\ Advance

\* verts.append(p)
TripleAccept ==
    /\ bpc = "triples"
    /\ LET p == Candidate(planes, t)
       IN  /\ p # None
           /\ Inside(planes, t, p)
           /\ ~Dup(verts, p)
           /\ last' = [fate |-> "accepted", p |-> p, q |-> None]
    /\ Advance

\* get_aabb_for_brush: the vertex list reduced
ReduceBox ==
    /\ bpc = "reduce"
    /\ box' = Reduce(verts)
    /\ bpc' = "done"
    /\ UNCHANGED <<brush, f, planes, t, verts, last>>

NextBrush ==
    \/ ExtractFace /\ UNCHANGED pvars
    \/ StartTriples /\ UNCHANGED pvars
    \/ TripleNoPoint /\ UNCHANGED pvars
    \/ TripleOutside /\ UNCHANGED pvars
    \/ TripleDuplicate /\ UNCHANGED pvars
    \/ TripleAccept /\ UNCHANGED pvars
    \/ ReduceBox /\ UNCHANGED pvars

SpecBrush == InitBrush /\ [][NextBrush]_vars


\* ---------------------------------------------- properties of the resolver
\* three collinear or coincident points
DegenerateFace(face) ==
    _vec_cross(_vec_sub(face[2], face[1]), _vec_sub(face[3], face[1])) = Zero3

ProperFace(face) == ~DegenerateFace(face)

\* the number of planes of the brush once its degenerate faces are removed
NumPlanes == Cardinality({m \in DOMAIN brush : ProperFace(brush[m])})

Returned == bpc = "done"

OnePoint(v) ==
    [mins |-> <<Coord(v, 1), Coord(v, 2), Coord(v, 3)>>,
     maxs |-> <<Coord(v, 1), Coord(v, 2), Coord(v, 3)>>]

\* C3 as stated: a brush with fewer than 4 non-degenerate planes (0, 1, 2
\* or 3) yields an empty vertex list and the no-box result (None, None).
C3_FewerThanFourPlanes ==
    (Returned /\ NumPlanes < 4) => (verts = <<>> /\ box = NoBox)

\* C3 amended: a brush with fewer than 3 non-degenerate planes yields an
\* empty vertex list and (None, None); a brush with exactly 3 yields at most
\* one vertex, the common point of the three planes, and then the box
\* mins = maxs = that point.
C3_FewerThanThreePlanes ==
    Returned =>
        /\ NumPlanes < 3 => (verts = <<>> /\ box = NoBox)
        /\ NumPlanes = 3 =>
            /\ Len(verts) <= 1
            /\ verts = <<>> => box = NoBox
            /\ verts # <<>> =>
                /\ verts[1] = _intersect_3_planes(planes[1], planes[2], planes[3])
                /\ box = OnePoint(verts[1])

\* three non-degenerate planes among degenerate faces, and one vertex
C3_Witness ==
    /\ Returned
    /\ NumPlanes = 3
    /\ Len(brush) > 3
    /\ Len(verts) = 1
    /\ box # NoBox

IsBox == Len(brush) = 6 /\ {brush[m] : m \in 1..6} = CubeFaces(BoxSide)

Corner(a, b, c) == Point(<<a, b, c>>, 1)

BoxCorners ==
    {Corner(a, b, c) : a \in {0, BoxSide}, b \in {0, BoxSide}, c \in {0, BoxSide}}

\* C4: for the six planes of the box from (0,0,0) to (10,10,10), in any face
\* order, exactly 8 vertices are returned, they are the 8 corners, and the
\* box is mins = (0,0,0), maxs = (10,10,10).
C4_BoxBrush ==
    (Returned /\ IsBox) =>
        /\ Len(verts) = 8
        /\ {verts[m] : m \in 1..Len(verts)} = BoxCorners
        /\ box = [mins |-> <<Rat(0, 1), Rat(0, 1), Rat(0, 1)>>,
                  maxs |-> <<Rat(BoxSide, 1), Rat(BoxSide, 1), Rat(BoxSide, 1)>>]

\* the box with its faces in an order that starts with the top and ends
\* with the x >= 0 face
C4_Witness ==
    /\ Returned
    /\ IsBox
    /\ brush[1] = ZHi(BoxSide)
    /\ brush[6] = XLo(0)
    /\ Len(verts) = 8

Permuted(perm) == [m \in 1..Len(brush) |-> brush[perm[m]]]

\* C6: the order of a brush's planes is irrelevant: every permutation of the
\* faces gives the same get_aabb_for_brush outcome, thin brushes included.
C6_OrderIrrelevant ==
    Returned =>
        \A perm \in Arrangements(1..Len(brush), Len(brush)) :
            get_aabb_for_brush(Permuted(perm)) = box

\* C8: a degenerate face is silently skipped: get_vertices_for_brush never
\* raises, and returns the vertex list of the same brush with all degenerate
\* faces removed, wherever they sit in the face order.
C8_DegenerateSkipped ==
    /\ bpc # "raised"
    /\ Returned => verts = get_vertices_for_brush(SelectSeq(brush, ProperFace))

\* a degenerate face between two proper faces of a brush that has vertices
C8_Witness ==
    /\ Returned
    /\ \E m \in 2..(Len(brush) - 1) :
          /\ DegenerateFace(brush[m])
          /\ ProperFace(brush[m - 1])
          /\ ProperFace(brush[m + 1])
    /\ Len(verts) >= 2

\* C9: every accepted vertex satisfies dot(normal, v) <= offset + epsilon
\* for every non-degenerate plane of the brush, not only its own three.
C9_InsideEveryPlane ==
    bpc \in {"triples", "reduce", "done"} =>
        \A m \in 1..Len(verts) :
            \A pl \in 1..Len(planes) : ~Outside(planes[pl], verts[m])

\* a candidate, on its own three planes, that a fourth plane rejected
C9_Witness ==
    /\ last.fate = "outside"
    /\ \E pl \in 1..Len(planes) : Outside(planes[pl], last.p)
    /\ \A m \in 1..Len(verts) : verts[m] # last.p
    /\ verts # <<>>

\* |p[c] - q[c]| compared with epsilon, over the common denominator
Gap(p, q, c) == Abs(p.x[c] * q.w - q.x[c] * p.w)

Tol(p, q) == epsilon * p.w * q.w

\* C10: at every point of the enumeration no two accepted vertices are
\* within epsilon of each other on all three axes: each pair differs by more
\* than epsilon on some axis (a candidate exactly epsilon away on every axis
\* is a duplicate).
C10_NoNearVertices ==
    \A a, b \in 1..Len(verts) :
        a < b => \E c \in 1..3 : Gap(verts[a], verts[b], c) > Tol(verts[a], verts[b])

\* a candidate exactly epsilon away from an accepted vertex on every axis
\* was dropped as a duplicate
C10_Witness ==
    /\ last.fate = "dup"
    /\ \A c \in 1..3 : Gap(last.p, last.q, c) = Tol(last.p, last.q)
    /\ \A m \in 1..Len(verts) : verts[m] # last.p


\* ---------------------------------------------- properties of process_map
\* the first spawn_zone entity is named A with adjacent_zones "B", the
\* second is named B, and both records are emitted
FirstAThenB ==
    /\ Len(zones) >= 2
    /\ seen[1].name = <<"A">>
    /\ seen[1].names = << <<"B">> >>
    /\ seen[2].name = <<"B">>

\* C1 as stated: for entities A (adjacent to "B") then B, the record of A
\* has zone_id 1 and the record of B has zone_id 2.
C1_OwnNameFirst ==
    FirstAThenB => (zones[1].zone_id = 1 /\ zones[2].zone_id = 2)

\* C1 amended: for entities A (adjacent to "B") then B, the record of A has
\* zone_id 2 and adjacency list [1], and the record of B has zone_id 1: the
\* names of an entity's adjacency list take their ids before its own name.
C1_AdjacencyFirst ==
    FirstAThenB =>
        /\ zones[1].zone_id = 2
        /\ zones[1].adjacent_zones = <<1>>
        /\ zones[2].zone_id = 1

\* process_map returned the two records of A (adjacent to "B") and B
C1_Witness ==
    /\ epc = "returned"
    /\ Len(zones) = 2
    /\ FirstAThenB

\* the names seen so far: the adjacency names resolved and the own names of
\* the entities emitted
SeenNames ==
    UNION {{seen[i].names[p] : p \in 1..Len(seen[i].names)} : i \in 1..Len(seen)}
    \cup {seen[i].name : i \in 1..Len(zones)}

DenseIds ==
    /\ DOMAIN zone_name_to_id = SeenNames
    /\ \A n1, n2 \in DOMAIN zone_name_to_id :
          n1 # n2 => zone_name_to_id[n1] # zone_name_to_id[n2]
    /\ {zone_name_to_id[n] : n \in DOMAIN zone_name_to_id}
          = 1..Cardinality(SeenNames)

IdsKept ==
    \A n \in DOMAIN zone_name_to_id :
        /\ n \in DOMAIN zone_name_to_id'
        /\ zone_name_to_id'[n] = zone_name_to_id[n]

\* C2: after every step the name-to-id map is injective, its ids are exactly
\* 1..n for the n distinct names seen so far (own names and adjacency
\* names), and no step changes or removes an id already assigned.
C2_DenseStableIds == []DenseIds /\ [][IdsKept]_vars

\* three names hold ids, and one of them was met first in an adjacency list
\* and later as an entity's own name
C2_Witness ==
    /\ Cardinality(DOMAIN zone_name_to_id) >= 3
    /\ \E i, j \in 1..Len(zones) :
          /\ i < j
          /\ \E p \in 1..Len(seen[i].names) : seen[i].names[p] = zones[j].name
          /\ zones[j].name # zones[i].name

BoxAround(vs) ==
    [mins |-> <<MinCoord(vs, 1), MinCoord(vs, 2), MinCoord(vs, 3)>>,
     maxs |-> <<MaxCoord(vs, 1), MaxCoord(vs, 2), MaxCoord(vs, 3)>>]

HasVertex(vs) == vs # <<>>

\* the boxes of the brushes that yielded at least one vertex, in order,
\* from the vertex lists the brushes yielded
Boxes(yielded) ==
    LET kept == SelectSeq(yielded, HasVertex)
    IN  [m \in 1..Len(kept) |-> BoxAround(kept[m])]

InEntity == epc \in {"adjacent", "brushes"}

\* C5: a brush without vertices is skipped without aborting: every
\* spawn_zone entity gets exactly one record, in encounter order, whose brush
\* list is, in order, the boxes of its brushes that yielded a vertex, and no
\* emitted ZoneBrush has a null mins or maxs.
C5_NoBoxSkipped ==
    /\ Len(zones) = IF InEntity THEN Len(seen) - 1 ELSE Len(seen)
    /\ \A i \in 1..Len(zones) :
          /\ zones[i].name = seen[i].name
          /\ Len(seen[i].yielded) = Len(seen[i].brushes)
          /\ zones[i].brushes = Boxes(seen[i].yielded)
          /\ \A b \in 1..Len(zones[i].brushes) :
                /\ zones[i].brushes[b].mins # <<>>
                /\ zones[i].brushes[b].maxs # <<>>
    /\ epc = "brushes" =>
          /\ Len(seen[Len(seen)].yielded) = bi - 1
          /\ brushes = Boxes(seen[Len(seen)].yielded)

\* a returned record whose entity had a brush without vertices before a
\* brush with vertices, and one after a brush with vertices
C5_Witness ==
    /\ epc = "returned"
    /\ \E i, j \in 1..Len(zones) :
          /\ Len(seen[i].brushes) = 2
          /\ seen[i].yielded[1] = <<>>
          /\ Len(zones[i].brushes) = 1
          /\ Len(seen[j].brushes) = 3
          /\ seen[j].yielded[2] = <<>>
          /\ Len(zones[j].brushes) = 2

\* C7: every id of a record's adjacent_zones that was resolved from name N
\* equals the zone_id of every emitted record named N, whether that record
\* comes before or after the referencing one.
C7_AdjacencyMatchesRecord ==
    \A i \in 1..Len(zones) :
        /\ Len(zones[i].adjacent_zones) = Len(seen[i].names)
        /\ \A p \in 1..Len(seen[i].names) :
              \A j \in 1..Len(zones) :
                  zones[j].name = seen[i].names[p]
                      => zones[i].adjacent_zones[p] = zones[j].zone_id

\* a forward reference and a backward reference between two records
C7_Witness ==
    /\ epc = "returned"
    /\ Len(zones) = 2
    /\ zones[1].name # zones[2].name
    /\ \E p \in 1..Len(seen[1].names) : seen[1].names[p] = zones[2].name
    /\ \E p \in 1..Len(seen[2].names) : seen[2].names[p] = zones[1].name

=============================================================================
